---- MODULE Spec2Model ----
(***************************************************************************)
(* Model of the tomato pomodoro timer (tomato.go).                         *)
(*                                                                         *)
(* Time is counted in clock units, Second of them to a second.  The fields *)
(* of the Server struct are the variables mode, state, t, d and count; N   *)
(* is the -n flag and now the clock.  Every HTTP handler and the ticker    *)
(* callback is one action (the handlers run one at a time).  A handler     *)
(* reads the clock more than once (time.Now() in the handler, in           *)
(* RefreshStatus and in formatTimer) and runs its hook command in between, *)
(* so each action lets the clock advance between its reads.                *)
(*                                                                         *)
(* hooks, resp and last record what the last step did (the hook calls, the *)
(* response body, the operation with its pre-state and clock reads; a step *)
(* of the clock alone clears them), completed counts the Work intervals    *)
(* that have expired, and run holds the clock at which the timer last      *)
(* began to run and whether it did so from a pause; the program keeps none *)
(* of them.                                                                *)
(*                                                                         *)
(* URL, Command, CommandOnStart and CommandAsync say whether the flags     *)
(* -url/-port, -command, -start-command and -async are given.  lastText    *)
(* and lastIcon are the globals of doRequest, pushes the goroutines that   *)
(* outputStatus has started and that are inside doRequest, sent the        *)
(* requests they have made.  waits counts the goroutines that wait for a   *)
(* hook command started with -async, and alive says that the process has   *)
(* not ended in a panic.  race holds the positions and the locals of the   *)
(* ticker goroutine and of a request goroutine that run their statements   *)
(* one by one, and the Server and the clock they began with.               *)
(***************************************************************************)
EXTENDS Integers, Sequences, FiniteSets, TLC

VARIABLES N, mode, state, t, d, count, now, hooks, resp, last, completed, run,
          URL, Command, CommandOnStart, CommandAsync,
          lastText, lastIcon, pushes, sent, waits, alive, race

\* the flags of the command line
flags == <<N, URL, Command, CommandOnStart, CommandAsync>>

vars == <<N, mode, state, t, d, count, now, hooks, resp, last, completed, run,
          URL, Command, CommandOnStart, CommandAsync,
          lastText, lastIcon, pushes, sent, waits, alive, race>>

----------------------------------------------------------------------------
(* Bounds of the model *)

\* last clock value of the full model
MaxTime == 11
\* last clock value of the start-and-expire-only model
MaxTimeAuto == 50
\* last clock value and largest -n of the model with a fair ticker
MaxTimeLive == 6
MaxLiveN == 2
\* last clock value of the model with a push endpoint, most goroutines it
\* has inside doRequest at a time, and most requests it sends
MaxTimePush == 4
MaxPushes == 2
MaxSent == 3
\* last clock value of the model with hook commands, and most commands it has
\* running at a time
MaxTimeHook == 5
MaxWaits == 2
\* last clock value and -n of the model of the goroutines' statements
MaxTimeRace == 6
MaxRaceN == 2
\* largest -n of the full model (the start-and-expire-only model has them all)
MaxModelN == 3
\* longest time that passes between two clock reads of one handler
MaxElapsed == 1
\* clock units in a second
Second == 1
\* the flags -work, -short and -long, in seconds
WorkSeconds == 2
ShortSeconds == 1
LongSeconds == 1

----------------------------------------------------------------------------
(* Program constants *)

ModeWork == "work"
ModeShortBreak == "short-break"
ModeLongBreak == "long-break"

StateStopped == "[S]"
StatePaused == "[P]"
StateRunning == "[R]"

\* the flags -colon and -colon-alt; both default to ":", and the README
\* sets a second glyph for the breaks, which "b" stands for
SepColon == ":"
SepBreak == "b"

\* main rejects N <= 0 and N >= 10
MinN == 1
MaxN == 9

\* time.Minute
Minute == 60 * Second

\* parseDuration of the three flags: a positive number of seconds
DurationWork == WorkSeconds * Second
DurationShortBreak == ShortSeconds * Second
DurationLongBreak == LongSeconds * Second

\* the cap on the minutes field
MaxMinutes == 99

\* the zero time.Time of a fresh Server, before every clock reading
ZeroTime == 0
\* the first clock reading of the process
StartTime == 1

Modes == {ModeWork, ModeShortBreak, ModeLongBreak}
States == {StateStopped, StatePaused, StateRunning}

\* the icons main loads for the work mode and for the breaks
Icon1Data == "red.png"
Icon2Data == "green.png"

\* names of the two hook functions, as entries of hooks
HookEnd == "executeCommand"
HookStart == "executeCommandOnStart"

----------------------------------------------------------------------------
(* Pure functions *)

\* Mode.Duration
Duration(m) ==
  CASE m = ModeWork -> DurationWork
    [] m = ModeShortBreak -> DurationShortBreak
    [] m = ModeLongBreak -> DurationLongBreak

\* Mode.Sep
Sep(m) ==
  CASE m = ModeWork -> SepColon
    [] m \in {ModeShortBreak, ModeLongBreak} -> SepBreak

\* fmt's %02d of a number below 100: its two digits
TwoDigits(n) == <<n \div 10, n % 10>>

\* formatTimer without the floor at zero
formatTimer_NoFloor(dur, sep) ==
  LET m == dur \div Minute
      s == (dur % Minute) \div Second
      mm == IF m > MaxMinutes THEN MaxMinutes ELSE m
  IN TwoDigits(mm) \o <<sep>> \o TwoDigits(s)

\* formatTimer(d, sep): "mm<sep>ss" as <<m1, m2, sep, s1, s2>>
formatTimer(dur, sep) ==
  LET dd == IF dur < 0 THEN 0 ELSE dur
      m == dd \div Minute
      s == (dd % Minute) \div Second
      mm == IF m > MaxMinutes THEN MaxMinutes ELSE m
  IN TwoDigits(mm) \o <<sep>> \o TwoDigits(s)

\* the Server struct as a record
Server == [mode |-> mode, state |-> state, t |-> t, d |-> d, count |-> count]

\* Server.formatTimer, with clk the value time.Now() returns in it
Server_formatTimer(s, clk) ==
  CASE s.state = StateStopped -> formatTimer(Duration(s.mode), Sep(s.mode))
    [] s.state = StatePaused -> formatTimer(s.d, Sep(s.mode))
    [] s.state = StateRunning -> formatTimer(s.t - clk, Sep(s.mode))

\* what Server.outputStatus hands to doRequest, with clk the value
\* time.Now() returns in its formatTimer
outputStatus(s, clk) ==
  [text |-> Server_formatTimer(s, clk),
   icon |-> IF s.mode # ModeWork THEN Icon2Data ELSE Icon1Data]

\* nextMode with the counter reset when the long break is entered
nextMode_ResetOnEntry(s, n) ==
  IF s.mode \in {ModeShortBreak, ModeLongBreak}
  THEN [s EXCEPT !.mode = ModeWork]
  ELSE IF s.count + 1 < n
       THEN [s EXCEPT !.count = s.count + 1, !.mode = ModeShortBreak]
       ELSE [s EXCEPT !.count = 0, !.mode = ModeLongBreak]

\* nextMode with the counter tested before it is incremented
nextMode_TestFirst(s, n) ==
  IF s.mode \in {ModeShortBreak, ModeLongBreak}
  THEN [s EXCEPT !.count = IF s.mode = ModeLongBreak THEN 0 ELSE s.count,
                 !.mode = ModeWork]
  ELSE [s EXCEPT !.count = s.count + 1,
                 !.mode = IF s.count < n THEN ModeShortBreak ELSE ModeLongBreak]

\* nextMode with <= for <
nextMode_OffByOne(s, n) ==
  IF s.mode \in {ModeShortBreak, ModeLongBreak}
  THEN [s EXCEPT !.count = IF s.mode = ModeLongBreak THEN 0 ELSE s.count,
                 !.mode = ModeWork]
  ELSE [s EXCEPT !.count = s.count + 1,
                 !.mode = IF s.count + 1 <= n THEN ModeShortBreak ELSE ModeLongBreak]

\* Server.nextMode
nextMode(s, n) ==
  IF s.mode \in {ModeShortBreak, ModeLongBreak}
  THEN [s EXCEPT !.count = IF s.mode = ModeLongBreak THEN 0 ELSE s.count,
                 !.mode = ModeWork]
  ELSE [s EXCEPT !.count = s.count + 1,
                 !.mode = IF s.count + 1 < n THEN ModeShortBreak ELSE ModeLongBreak]

\* Expired with "before" for "after"
Expired_Before(s, clk) == s.state = StateRunning /\ clk < s.t

\* Expired with "not before" for "after"
Expired_OrEqual(s, clk) == s.state = StateRunning /\ clk >= s.t

\* Expired without the test of the state
Expired_AnyState(s, clk) == clk > s.t

\* the test of Server.RefreshStatus: time.Now().After(s.t) while running
Expired(s, clk) == s.state = StateRunning /\ clk > s.t

\* RefreshStatus that leaves the expired timer running
RefreshStatus_NoStop(s, n, clk) ==
  IF Expired(s, clk)
  THEN [s |-> nextMode(s, n), hooks |-> <<HookEnd>>]
  ELSE [s |-> s, hooks |-> <<>>]

\* Server.RefreshStatus, with clk the value time.Now() returns in it:
\* the new Server and the hooks it called
RefreshStatus(s, n, clk) ==
  IF Expired(s, clk)
  THEN [s |-> nextMode([s EXCEPT !.state = StateStopped], n), hooks |-> <<HookEnd>>]
  ELSE [s |-> s, hooks |-> <<>>]

\* StopSwitch that counts a skipped Work interval as completed
StopSwitch_Counting(s, n) ==
  IF s.state \in {StateRunning, StatePaused}
  THEN [s EXCEPT !.state = StateStopped]
  ELSE CASE s.mode = ModeWork ->
              [s EXCEPT !.count = s.count + 1,
                        !.mode = IF s.count + 1 < n THEN ModeShortBreak ELSE ModeLongBreak]
         [] s.mode = ModeShortBreak -> [s EXCEPT !.mode = ModeWork]
         [] s.mode = ModeLongBreak -> [s EXCEPT !.mode = ModeShortBreak]

\* StopSwitch that moves on to the next mode when it stops a timer
StopSwitch_Advance(s, n) ==
  IF s.state \in {StateRunning, StatePaused}
  THEN nextMode([s EXCEPT !.state = StateStopped], n)
  ELSE CASE s.mode = ModeWork ->
              [s EXCEPT !.mode = IF s.count < n THEN ModeShortBreak ELSE ModeLongBreak]
         [] s.mode = ModeShortBreak -> [s EXCEPT !.mode = ModeWork]
         [] s.mode = ModeLongBreak -> [s EXCEPT !.mode = ModeShortBreak]

\* the switch of Server.ActionStop, before its RefreshStatus
StopSwitch(s, n) ==
  IF s.state \in {StateRunning, StatePaused}
  THEN [s EXCEPT !.state = StateStopped]
  ELSE CASE s.mode = ModeWork ->
              [s EXCEPT !.mode = IF s.count < n THEN ModeShortBreak ELSE ModeLongBreak]
         [] s.mode = ModeShortBreak -> [s EXCEPT !.mode = ModeWork]
         [] s.mode = ModeLongBreak -> [s EXCEPT !.mode = ModeShortBreak]

\* StartSwitch that resumes a stopped timer from the remaining time of an
\* earlier pause
StartSwitch_Resume(s, n, clk0, clk1) ==
  CASE s.state = StateStopped ->
         [s |-> [s EXCEPT !.t = clk0 + (IF s.d > 0 THEN s.d ELSE Duration(s.mode)),
                          !.state = StateRunning],
          hooks |-> <<HookStart>>]
    [] s.state = StatePaused ->
         [s |-> [s EXCEPT !.t = clk0 + s.d, !.state = StateRunning],
          hooks |-> <<HookStart>>]
    [] s.state = StateRunning ->
         LET r == RefreshStatus(s, n, clk1)
         IN IF r.s.state = StateRunning
            THEN [s |-> [r.s EXCEPT !.d = r.s.t - clk0, !.state = StatePaused],
                  hooks |-> r.hooks]
            ELSE r

\* StartSwitch that pauses with the time left at the clock of RefreshStatus
StartSwitch_PauseAtRefresh(s, n, clk0, clk1) ==
  CASE s.state = StateStopped ->
         [s |-> [s EXCEPT !.t = clk0 + Duration(s.mode), !.state = StateRunning],
          hooks |-> <<HookStart>>]
    [] s.state = StatePaused ->
         [s |-> [s EXCEPT !.t = clk0 + s.d, !.state = StateRunning],
          hooks |-> <<HookStart>>]
    [] s.state = StateRunning ->
         LET r == RefreshStatus(s, n, clk1)
         IN IF r.s.state = StateRunning
            THEN [s |-> [r.s EXCEPT !.d = r.s.t - clk1, !.state = StatePaused],
                  hooks |-> r.hooks]
            ELSE r

\* StartSwitch that resumes a paused timer with the full duration
StartSwitch_Refund(s, n, clk0, clk1) ==
  CASE s.state \in {StateStopped, StatePaused} ->
         [s |-> [s EXCEPT !.t = clk0 + Duration(s.mode), !.state = StateRunning],
          hooks |-> <<HookStart>>]
    [] s.state = StateRunning ->
         LET r == RefreshStatus(s, n, clk1)
         IN IF r.s.state = StateRunning
            THEN [s |-> [r.s EXCEPT !.d = r.s.t - clk0, !.state = StatePaused],
                  hooks |-> r.hooks]
            ELSE r

\* StartSwitch that starts the next interval when it finds the timer expired
StartSwitch_Restart(s, n, clk0, clk1) ==
  CASE s.state = StateStopped ->
         [s |-> [s EXCEPT !.t = clk0 + Duration(s.mode), !.state = StateRunning],
          hooks |-> <<HookStart>>]
    [] s.state = StatePaused ->
         [s |-> [s EXCEPT !.t = clk0 + s.d, !.state = StateRunning],
          hooks |-> <<HookStart>>]
    [] s.state = StateRunning ->
         LET r == RefreshStatus(s, n, clk1)
         IN IF r.s.state = StateRunning
            THEN [s |-> [r.s EXCEPT !.d = r.s.t - clk0, !.state = StatePaused],
                  hooks |-> r.hooks]
            ELSE [s |-> [r.s EXCEPT !.t = clk0 + Duration(r.s.mode),
                                    !.state = StateRunning],
                  hooks |-> r.hooks \o <<HookStart>>]

\* StartSwitch that pauses without the RefreshStatus before
StartSwitch_NoRecheck(s, n, clk0, clk1) ==
  CASE s.state = StateStopped ->
         [s |-> [s EXCEPT !.t = clk0 + Duration(s.mode), !.state = StateRunning],
          hooks |-> <<HookStart>>]
    [] s.state = StatePaused ->
         [s |-> [s EXCEPT !.t = clk0 + s.d, !.state = StateRunning],
          hooks |-> <<HookStart>>]
    [] s.state = StateRunning ->
         [s |-> [s EXCEPT !.d = s.t - clk0, !.state = StatePaused], hooks |-> <<>>]

\* the switch of Server.ActionStart: clk0 is the handler's `now`, clk1 the
\* clock in its RefreshStatus
StartSwitch(s, n, clk0, clk1) ==
  CASE s.state = StateStopped ->
         [s |-> [s EXCEPT !.t = clk0 + Duration(s.mode), !.state = StateRunning],
          hooks |-> <<HookStart>>]
    [] s.state = StatePaused ->
         [s |-> [s EXCEPT !.t = clk0 + s.d, !.state = StateRunning],
          hooks |-> <<HookStart>>]
    [] s.state = StateRunning ->
         LET r == RefreshStatus(s, n, clk1)
         IN IF r.s.state = StateRunning
            THEN [s |-> [r.s EXCEPT !.d = r.s.t - clk0, !.state = StatePaused],
                  hooks |-> r.hooks]
            ELSE r

----------------------------------------------------------------------------
(* State *)

\* the timer is not in an interval
NoRun == [since |-> ZeroTime, resumed |-> FALSE]

\* the hook commands that the hook calls hk start: executeCommand and
\* executeCommandOnStart return at once when their flag is not given
Started(hk) ==
  Cardinality({i \in DOMAIN hk : (hk[i] = HookEnd /\ Command)
                                    \/ (hk[i] = HookStart /\ CommandOnStart)})

\* no goroutine is inside RefreshStatus or ActionStart
NoRace ==
  [base |-> [mode |-> ModeWork, state |-> StateStopped, t |-> ZeroTime, d |-> 0,
             count |-> 0],
   began |-> ZeroTime,
   ticker |-> [pc |-> "idle", now |-> ZeroTime, clk |-> ZeroTime],
   request |-> [pc |-> "idle", now |-> ZeroTime, clk |-> ZeroTime]]

\* what an operation leaves behind: the new Server, the hooks it called, its
\* response, and the record of the call
Commit(op, s, hk, body, out, clk1, clk2) ==
  /\ alive
  /\ mode' = s.mode
  /\ state' = s.state
  /\ t' = s.t
  /\ d' = s.d
  /\ count' = s.count
  /\ hooks' = hk
  /\ resp' = body
  /\ now' = clk2
  /\ last' = [op |-> op, pre |-> Server, clk0 |-> now, clk1 |-> clk1]
  /\ completed' = IF HookEnd \in {hk[i] : i \in DOMAIN hk} /\ mode = ModeWork
                  THEN completed + 1 ELSE completed
  /\ run' = CASE s.state = StateRunning /\ state # StateRunning ->
                   [since |-> now, resumed |-> state = StatePaused]
               [] s.state = StateStopped -> NoRun
               [] OTHER -> run
  /\ IF URL
     THEN /\ Len(pushes) + Len(out) <= MaxPushes
          /\ pushes' = pushes \o [i \in DOMAIN out |->
                                    [text |-> out[i].text, icon |-> out[i].icon,
                                     pc |-> "text"]]
     ELSE UNCHANGED pushes
  /\ IF CommandAsync
     THEN /\ waits + Started(hk) <= MaxWaits
          /\ waits' = waits + Started(hk)
     ELSE UNCHANGED waits
  /\ UNCHANGED <<flags, lastText, lastIcon, sent, alive, race>>

NoCall == [op |-> "none",
           pre |-> [mode |-> ModeWork, state |-> StateStopped, t |-> ZeroTime,
                    d |-> 0, count |-> 0],
           clk0 |-> ZeroTime, clk1 |-> ZeroTime]

\* NewServer, and the flags main has validated
InitWith(ns) ==
  /\ N \in ns
  /\ mode = ModeWork
  /\ state = StateStopped
  /\ t = ZeroTime
  /\ d = 0
  /\ count = 0
  /\ now = StartTime
  /\ hooks = <<>>
  /\ resp = <<>>
  /\ last = NoCall
  /\ completed = 0
  /\ run = NoRun
  /\ pushes = <<>>
  /\ waits = 0
  /\ alive = TRUE
  /\ race = NoRace

\* the flags: without -url or -port nothing is pushed; with one of them main
\* has pushed the work duration and the work icon before the server starts
InitFlags(url, cmds, asyncs) ==
  /\ URL = url
  /\ Command \in cmds
  /\ CommandOnStart \in cmds
  /\ CommandAsync \in asyncs
  /\ lastText = IF url THEN formatTimer(DurationWork, SepColon) ELSE <<>>
  /\ lastIcon = IF url THEN Icon1Data ELSE ""
  /\ sent = IF url THEN <<[text |-> formatTimer(DurationWork, SepColon),
                          icon |-> Icon1Data]>>
            ELSE <<>>

\* the default flags but for -n
Init == InitWith(MinN .. MaxModelN) /\ InitFlags(FALSE, {FALSE}, {FALSE})

InitAuto == InitWith(MinN .. MaxN) /\ InitFlags(FALSE, {FALSE}, {FALSE})

----------------------------------------------------------------------------
(* Operations *)

\* the clock advances while no handler runs
Advance(limit) ==
  /\ alive
  /\ now < limit
  /\ now' = now + 1
  /\ hooks' = <<>>
  /\ resp' = <<>>
  /\ last' = NoCall
  /\ UNCHANGED <<mode, state, t, d, count, completed, run>>
  /\ UNCHANGED <<flags, lastText, lastIcon, pushes, sent, waits, alive, race>>

\* a handler that is RefreshStatus and nothing else: the clock is read at
\* now, and once more (after the hook) when the timer is formatted
Refresh(op, limit) ==
  \E e \in 0 .. MaxElapsed :
    /\ now + e <= limit
    /\ LET r == RefreshStatus(Server, N, now)
       IN Commit(op, r.s, r.hooks, Server_formatTimer(r.s, now + e),
                 <<outputStatus(r.s, now + e)>>, now, now + e)

Tick == Advance(MaxTime)

\* the ticker goroutine of main: s.RefreshStatus(false)
Ticker == Refresh("Ticker", MaxTime)

\* Server.Status
Status == Refresh("Status", MaxTime)

\* Server.Time
Time == Refresh("Time", MaxTime)

\* Server.ActionStart
Start(limit) ==
  \E e1, e2 \in 0 .. MaxElapsed :
    /\ now + e1 + e2 <= limit
    /\ state # StateRunning => e1 = 0
    /\ LET r == StartSwitch(Server, N, now, now + e1)
           \* only the StateRunning case runs RefreshStatus and its outputStatus,
           \* before it pauses
           out == IF state = StateRunning
                  THEN <<outputStatus(RefreshStatus(Server, N, now + e1).s,
                                      now + e1 + e2)>>
                  ELSE <<>>
       IN Commit("ActionStart", r.s, r.hooks,
                 Server_formatTimer(r.s, now + e1 + e2), out,
                 now + e1, now + e1 + e2)

ActionStart == Start(MaxTime)

\* Server.ActionStop
ActionStop ==
  LET r == RefreshStatus(StopSwitch(Server, N), N, now)
  IN Commit("ActionStop", r.s, r.hooks, Server_formatTimer(r.s, now),
            <<outputStatus(r.s, now)>>, now, now)

Next == Tick \/ Ticker \/ Status \/ Time \/ ActionStart \/ ActionStop

Spec == Init /\ [][Next]_vars

----------------------------------------------------------------------------
(* The ticker fires again and again (time.NewTicker in main) and the clock *)
(* goes on; requests may come or not                                       *)

InitLive == InitWith(MinN .. MaxLiveN) /\ InitFlags(FALSE, {FALSE}, {FALSE})

TickLive == Advance(MaxTimeLive)

TickerLive == Refresh("Ticker", MaxTimeLive)

StartLive == Start(MaxTimeLive)

NextLive == TickLive \/ TickerLive \/ StartLive \/ ActionStop

SpecLive ==
  InitLive /\ [][NextLive]_vars /\ WF_vars(TickLive) /\ WF_vars(TickerLive)

----------------------------------------------------------------------------
(* With a push endpoint: every outputStatus starts a goroutine that runs   *)
(* doRequest, beside the ticker and the handlers                           *)

\* the timer and everything else that doRequest leaves alone
UnchangedByPush ==
  UNCHANGED <<flags, mode, state, t, d, count, now, hooks, resp, last, completed,
              run, waits, alive, race>>

\* the goroutines without the i-th
Without(i) ==
  [j \in 1 .. Len(pushes) - 1 |-> IF j < i THEN pushes[j] ELSE pushes[j + 1]]

\* the i-th goroutine at its next step
At(i, pc) == [pushes EXCEPT ![i].pc = pc]

\* doRequest: text == lastText
PushText(i) ==
  /\ pushes[i].pc = "text"
  /\ pushes' = At(i, IF pushes[i].text = lastText THEN "icon" ELSE "get")
  /\ UNCHANGED <<lastText, lastIcon, sent>>

\* doRequest: && iconData == lastIcon, and return nil if so
PushIcon(i) ==
  /\ pushes[i].pc = "icon"
  /\ pushes' = IF pushes[i].icon = lastIcon THEN Without(i) ELSE At(i, "get")
  /\ UNCHANGED <<lastText, lastIcon, sent>>

\* doRequest: httpClient.Get
PushGet(i) ==
  /\ pushes[i].pc = "get"
  /\ Len(sent) < MaxSent
  /\ sent' = Append(sent, [text |-> pushes[i].text, icon |-> pushes[i].icon])
  /\ pushes' = At(i, "lastText")
  /\ UNCHANGED <<lastText, lastIcon>>

\* doRequest, deferred: lastText = text
PushLastText(i) ==
  /\ pushes[i].pc = "lastText"
  /\ lastText' = pushes[i].text
  /\ pushes' = At(i, "lastIcon")
  /\ UNCHANGED <<lastIcon, sent>>

\* doRequest, deferred: lastIcon = iconData
PushLastIcon(i) ==
  /\ pushes[i].pc = "lastIcon"
  /\ lastIcon' = pushes[i].icon
  /\ pushes' = Without(i)
  /\ UNCHANGED <<lastText, sent>>

\* a step of one of the goroutines in doRequest
DoRequest ==
  /\ alive
  /\ UnchangedByPush
  /\ \E i \in DOMAIN pushes :
       \/ PushText(i)
       \/ PushIcon(i)
       \/ PushGet(i)
       \/ PushLastText(i)
       \/ PushLastIcon(i)

InitPush == InitWith({MinN}) /\ InitFlags(TRUE, {FALSE}, {FALSE})

TickPush == Advance(MaxTimePush)

TickerPush == Refresh("Ticker", MaxTimePush)

StatusPush == Refresh("Status", MaxTimePush)

StartPush == Start(MaxTimePush)

NextPush == TickPush \/ TickerPush \/ StatusPush \/ StartPush \/ DoRequest

SpecPush == InitPush /\ [][NextPush]_vars

----------------------------------------------------------------------------
(* With hook commands (-command, -start-command), run with or without      *)
(* -async                                                                  *)

\* the goroutine of executeCommand and executeCommandOnStart that waits for
\* a command started with -async: when cmd.Wait returns an error it calls
\* printCommandError(err) with the nil err of cmd.Start, and err.Error()
\* panics there; nothing recovers the panic, which ends the process
CommandWait ==
  /\ alive
  /\ waits > 0
  /\ waits' = waits - 1
  /\ \E exit \in {"zero", "non-zero"} : alive' = (exit = "zero")
  /\ UNCHANGED <<flags, mode, state, t, d, count, now, hooks, resp, last,
                 completed, run, lastText, lastIcon, pushes, sent, race>>

InitHook == InitWith({MinN}) /\ InitFlags(FALSE, {TRUE}, BOOLEAN)

TickHook == Advance(MaxTimeHook)

TickerHook == Refresh("Ticker", MaxTimeHook)

StartHook == Start(MaxTimeHook)

NextHook == TickHook \/ TickerHook \/ StartHook \/ ActionStop \/ CommandWait

SpecHook == InitHook /\ [][NextHook]_vars

----------------------------------------------------------------------------
(* The ticker goroutine in RefreshStatus(false) beside a request goroutine *)
(* in ActionStart, statement by statement: Server has no lock              *)

\* the two goroutines
Goroutines == {"ticker", "request"}

\* what the statements of RefreshStatus and ActionStart leave alone
UnchangedByRace ==
  UNCHANGED <<flags, now, hooks, resp, last, completed, run, lastText, lastIcon,
              pushes, sent, waits, alive>>

\* goroutine p moves to pc
Goto(p, pc) == race' = [race EXCEPT ![p].pc = pc]

\* where RefreshStatus returns to: the ticker's loop, or ActionStart's
\* if s.state == StateRunning
Return(p) == IF p = "ticker" THEN "done" ELSE "recheck"

\* a tick of the ticker and a POST /start arrive
RaceBegin ==
  /\ race.ticker.pc = "idle"
  /\ race' = [base |-> Server, began |-> now,
              ticker |-> [pc |-> "switch", now |-> ZeroTime, clk |-> ZeroTime],
              request |-> [pc |-> "begin", now |-> ZeroTime, clk |-> ZeroTime]]
  /\ UNCHANGED <<mode, state, t, d, count>>

\* RefreshStatus: switch s.state
RefreshSwitch(p) ==
  /\ race[p].pc = "switch"
  /\ Goto(p, IF state = StateRunning THEN "test" ELSE Return(p))
  /\ UNCHANGED <<mode, state, t, d, count>>

\* RefreshStatus: if time.Now().After(s.t)
RefreshTest(p) ==
  /\ race[p].pc = "test"
  /\ race' = [race EXCEPT ![p].clk = now,
                          ![p].pc = IF now > t THEN "stop" ELSE Return(p)]
  /\ UNCHANGED <<mode, state, t, d, count>>

\* RefreshStatus: s.state = StateStopped
RefreshStop(p) ==
  /\ race[p].pc = "stop"
  /\ state' = StateStopped
  /\ Goto(p, "next")
  /\ UNCHANGED <<mode, t, d, count>>

\* RefreshStatus: s.nextMode(), and executeCommand, which returns at once
\* without -command
RefreshNext(p) ==
  /\ race[p].pc = "next"
  /\ mode' = nextMode(Server, N).mode
  /\ count' = nextMode(Server, N).count
  /\ Goto(p, Return(p))
  /\ UNCHANGED <<state, t, d>>

\* ActionStart: now := time.Now() and switch s.state
StartBegin ==
  /\ race.request.pc = "begin"
  /\ race' = [race EXCEPT !.request.now = now,
                          !.request.pc = CASE state = StateStopped -> "start"
                                           [] state = StatePaused -> "resume"
                                           [] state = StateRunning -> "switch"]
  /\ UNCHANGED <<mode, state, t, d, count>>

\* ActionStart, case StateStopped: s.t = now.Add(s.mode.Duration())
StartDeadline ==
  /\ race.request.pc = "start"
  /\ t' = race.request.now + Duration(mode)
  /\ Goto("request", "run")
  /\ UNCHANGED <<mode, state, d, count>>

\* ActionStart, case StatePaused: s.t = now.Add(s.d)
StartResume ==
  /\ race.request.pc = "resume"
  /\ t' = race.request.now + d
  /\ Goto("request", "run")
  /\ UNCHANGED <<mode, state, d, count>>

\* ActionStart, cases StateStopped and StatePaused: s.state = StateRunning
StartRun ==
  /\ race.request.pc = "run"
  /\ state' = StateRunning
  /\ Goto("request", "done")
  /\ UNCHANGED <<mode, t, d, count>>

\* ActionStart, case StateRunning: if s.state == StateRunning
StartRecheck ==
  /\ race.request.pc = "recheck"
  /\ Goto("request", IF state = StateRunning THEN "remaining" ELSE "done")
  /\ UNCHANGED <<mode, state, t, d, count>>

\* ActionStart, case StateRunning: s.d = s.t.Sub(now)
StartRemaining ==
  /\ race.request.pc = "remaining"
  /\ d' = t - race.request.now
  /\ Goto("request", "pause")
  /\ UNCHANGED <<mode, state, t, count>>

\* ActionStart, case StateRunning: s.state = StatePaused
StartPause ==
  /\ race.request.pc = "pause"
  /\ state' = StatePaused
  /\ Goto("request", "done")
  /\ UNCHANGED <<mode, t, d, count>>

\* both goroutines have returned
RaceDone == race.ticker.pc = "done" /\ race.request.pc = "done"

\* the ticker waits for its next tick, the request is answered
RaceEnd ==
  /\ RaceDone
  /\ race' = NoRace
  /\ UNCHANGED <<mode, state, t, d, count>>

\* one statement of one of the two goroutines
RaceStep ==
  /\ UnchangedByRace
  /\ \/ RaceBegin
     \/ \E p \in Goroutines :
          RefreshSwitch(p) \/ RefreshTest(p) \/ RefreshStop(p) \/ RefreshNext(p)
     \/ StartBegin
     \/ StartDeadline
     \/ StartResume
     \/ StartRun
     \/ StartRecheck
     \/ StartRemaining
     \/ StartPause
     \/ RaceEnd

InitRace == InitWith({MaxRaceN}) /\ InitFlags(FALSE, {FALSE}, {FALSE})

TickRace == Advance(MaxTimeRace)

NextRace == TickRace \/ RaceStep

SpecRace == InitRace /\ [][NextRace]_vars

----------------------------------------------------------------------------
(* Start and automatic expiry only: no pause, no stop, no status query *)

TickAuto == Advance(MaxTimeAuto)

TickerAuto == Refresh("Ticker", MaxTimeAuto)

StartAuto == state = StateStopped /\ Start(MaxTimeAuto)

NextAuto == TickAuto \/ TickerAuto \/ StartAuto

SpecAuto == InitAuto /\ [][NextAuto]_vars

----------------------------------------------------------------------------
(* Vocabulary of the properties *)

\* the operations that run RefreshStatus on the Server as they find it
RefreshOps == {"Ticker", "Status", "Time", "ActionStart"}

\* the last step was operation op
Acted(op) == last.op = op

\* the last operation found the timer running with its deadline behind the
\* clock (the clock being the one its RefreshStatus read)
Due == last.op # "none" /\ last.pre.state = StateRunning /\ last.clk1 > last.pre.t

\* the hooks among the calls hk
Hooked(hk) == {hk[i] : i \in DOMAIN hk}

\* how often the last operation called hook h
Calls(h) == Cardinality({i \in DOMAIN hooks : hooks[i] = h})

\* the last operation was a manual switch of a stopped timer in mode m
SwitchedFrom(m) ==
  Acted("ActionStop") /\ last.pre.state = StateStopped /\ last.pre.mode = m

\* the last operation was an expiry of an interval of mode m
ExpiredFrom(m) == last.op \in RefreshOps /\ Due /\ last.pre.mode = m

----------------------------------------------------------------------------
(* Properties *)

\* C1: ActionStop on a stopped timer in long-break mode leaves it stopped in
\* work mode with count = 0, whatever count was.
C1_SwitchFromLongBreak ==
  SwitchedFrom(ModeLongBreak) =>
    mode = ModeWork /\ count = 0 /\ state = StateStopped

C3_LongBreakZero == mode = ModeLongBreak => count = 0

\* C3 as amended: entering long-break does not reset count: in every
\* reachable state mode = long-break implies count >= N, and count is reset
\* to 0 when an expiry leaves long-break.
C3_LongBreakFull ==
  /\ mode = ModeLongBreak => count >= N
  /\ ExpiredFrom(ModeLongBreak) => count = 0 /\ mode = ModeWork

\* the N-th Work interval has just expired into long-break
C3_Witness == ExpiredFrom(ModeWork) /\ mode = ModeLongBreak /\ count = N

\* C4: an expiry stops the timer; from work it adds 1 to count and goes to
\* short-break if the new count is below N and to long-break otherwise; from
\* short-break it keeps count and goes to work; from long-break it sets count
\* to 0 and goes to work.
C4_Expiry ==
  /\ ExpiredFrom(ModeWork) =>
       /\ state = StateStopped
       /\ count = last.pre.count + 1
       /\ mode = IF count < N THEN ModeShortBreak ELSE ModeLongBreak
  /\ ExpiredFrom(ModeShortBreak) =>
       state = StateStopped /\ count = last.pre.count /\ mode = ModeWork
  /\ ExpiredFrom(ModeLongBreak) =>
       state = StateStopped /\ count = 0 /\ mode = ModeWork

\* the ticker has expired a Work interval short of the N-th
C4_Witness ==
  Acted("Ticker") /\ ExpiredFrom(ModeWork) /\ mode = ModeShortBreak /\ count = N - 1

\* C5: in a run of starts and expiries alone, for every N in 1..9, the k-th
\* Work expiry of the run leads to long-break when k is a multiple of N and
\* to short-break otherwise, the expiry of a break leads to work, with
\* count = 0 after the long break, and every Work interval starts with
\* count = (number of Work expiries so far) mod N, as in the first cycle.
C5_Cycle ==
  /\ ExpiredFrom(ModeWork) =>
       mode = IF completed % N = 0 THEN ModeLongBreak ELSE ModeShortBreak
  /\ ExpiredFrom(ModeShortBreak) => mode = ModeWork
  /\ ExpiredFrom(ModeLongBreak) => mode = ModeWork /\ count = 0
  /\ mode = ModeWork => count = completed % N

\* with the largest N, the first Work interval of the second cycle has expired
C5_Witness ==
  N = MaxN /\ ExpiredFrom(ModeWork) /\ completed = N + 1 /\ mode = ModeShortBreak

\* C6: ActionStop on a stopped timer in work or short-break mode keeps count
\* and the stopped state; from work it goes to short-break if count < N and
\* to long-break otherwise, from short-break to work.
C6_SwitchKeepsCount ==
  /\ SwitchedFrom(ModeWork) =>
       /\ count = last.pre.count
       /\ state = StateStopped
       /\ mode = IF last.pre.count < N THEN ModeShortBreak ELSE ModeLongBreak
  /\ SwitchedFrom(ModeShortBreak) =>
       count = last.pre.count /\ state = StateStopped /\ mode = ModeWork

\* a manual switch from work to long-break
C6_Witness == SwitchedFrom(ModeWork) /\ mode = ModeLongBreak /\ count = last.pre.count

\* C7 as stated: whichever operation is the first to find a running timer
\* past its deadline calls the expiry hook once and advances the mode, and an
\* operation that finds no such timer calls no expiry hook.
C7_ExactlyOnce ==
  last.op # "none" =>
    IF Due THEN Calls(HookEnd) = 1 /\ mode # last.pre.mode
    ELSE Calls(HookEnd) = 0

\* C7 as amended: a tick, a status query or a start/pause that finds a
\* running timer past its deadline calls the expiry hook once, advances the
\* mode and stops the timer, so that the deadline cannot fire again; a
\* stop/switch that finds it cancels the interval with no expiry hook and no
\* mode advance; no operation calls the expiry hook otherwise, or twice.
C7_OnceUnlessStopped ==
  /\ last.op \in RefreshOps /\ Due =>
       Calls(HookEnd) = 1 /\ mode # last.pre.mode /\ state = StateStopped
  /\ Acted("ActionStop") /\ Due =>
       /\ Calls(HookEnd) = 0
       /\ mode = last.pre.mode
       /\ count = last.pre.count
       /\ state = StateStopped
  /\ ~Due => Calls(HookEnd) = 0
  /\ Calls(HookEnd) <= 1

\* a stop/switch was the first operation after the deadline
C7_Witness == Acted("ActionStop") /\ Due /\ hooks = <<>> /\ state = StateStopped

\* C8: ActionStop on a running or paused timer stops it and changes nothing
\* else: mode, count, deadline and remaining are kept and no hook is called.
C8_StopOnly ==
  Acted("ActionStop") /\ last.pre.state \in {StateRunning, StatePaused} =>
    /\ state = StateStopped
    /\ mode = last.pre.mode
    /\ count = last.pre.count
    /\ t = last.pre.t
    /\ d = last.pre.d
    /\ hooks = <<>>

\* a paused timer has been stopped
C8_Witness ==
  Acted("ActionStop") /\ last.pre.state = StatePaused /\ state = StateStopped

\* C9 as stated: a status query leaves mode, state, deadline, remaining and
\* count as they were, in every state and at every clock value.
C9_ReadOnly == last.op \in {"Status", "Time"} => Server = last.pre

\* C9 as amended: a status query leaves the five fields as they were and
\* calls no hook, unless the timer is running past its deadline: then it
\* stops the timer, advances the mode and calls the expiry hook.
C9_ReadOnlyUnlessDue ==
  last.op \in {"Status", "Time"} =>
    IF Due
    THEN /\ state = StateStopped
         /\ mode # last.pre.mode
         /\ t = last.pre.t
         /\ d = last.pre.d
         /\ hooks = <<HookEnd>>
    ELSE Server = last.pre /\ hooks = <<>>

\* a status query has found the timer running before its deadline
C9_Witness ==
  Acted("Status") /\ last.pre.state = StateRunning /\ ~Due /\ state = StateRunning

\* C10 as stated: ActionStart on a stopped timer makes it run until now + the
\* full duration of the mode, whatever remaining holds, calls the start hook
\* once, keeps mode and count, and answers with the full duration.
C10_StartShowsFull ==
  Acted("ActionStart") /\ last.pre.state = StateStopped =>
    /\ state = StateRunning
    /\ t = last.clk0 + Duration(last.pre.mode)
    /\ hooks = <<HookStart>>
    /\ mode = last.pre.mode
    /\ count = last.pre.count
    /\ resp = formatTimer(Duration(mode), Sep(mode))

\* C10 as amended: the same, but the answer is the full duration less the
\* time that has passed in the handler since it read now (the start hook
\* runs in between), rounded down to the second.
C10_StartShowsRest ==
  Acted("ActionStart") /\ last.pre.state = StateStopped =>
    /\ state = StateRunning
    /\ t = last.clk0 + Duration(last.pre.mode)
    /\ hooks = <<HookStart>>
    /\ mode = last.pre.mode
    /\ count = last.pre.count
    /\ resp = formatTimer(Duration(mode) - (now - last.clk0), Sep(mode))

\* a timer stopped with a remaining time left over from a pause has been
\* started, and time has passed in the handler
C10_Witness ==
  /\ Acted("ActionStart")
  /\ last.pre.state = StateStopped
  /\ last.pre.d > 0
  /\ last.pre.d < Duration(mode)
  /\ now > last.clk0
  /\ state = StateRunning

\* C11: ActionStart on a running timer whose deadline its RefreshStatus finds
\* not passed pauses it with remaining = deadline - now, which is at least 0
\* and is below the full duration of the mode if time has passed since the
\* timer began to run; mode, count and the deadline are kept.
C11_Pause ==
  Acted("ActionStart") /\ last.pre.state = StateRunning /\ last.clk1 <= last.pre.t =>
    /\ state = StatePaused
    /\ d = last.pre.t - last.clk0
    /\ 0 <= d
    /\ d <= Duration(mode)
    /\ last.clk0 > run.since => d < Duration(mode)
    /\ mode = last.pre.mode
    /\ count = last.pre.count
    /\ t = last.pre.t
    /\ hooks = <<>>

\* a timer started afresh has been paused after some time, with time left
C11_Witness ==
  /\ Acted("ActionStart")
  /\ last.pre.state = StateRunning
  /\ state = StatePaused
  /\ ~run.resumed
  /\ last.clk0 > run.since
  /\ 0 < d

\* C12: a pause that follows a resume stores a remaining that is at most the
\* remaining of the pause before and is less than it by exactly the time the
\* timer has run since the resume.
C12_NoRefund ==
  Acted("ActionStart") /\ last.pre.state = StateRunning /\ state = StatePaused
    /\ run.resumed =>
      /\ d <= last.pre.d
      /\ d = last.pre.d - (last.clk0 - run.since)

\* a second pause, after the timer has run for a while since the resume
C12_Witness ==
  /\ Acted("ActionStart")
  /\ last.pre.state = StateRunning
  /\ state = StatePaused
  /\ run.resumed
  /\ d < last.pre.d

\* the text that shows a time span of at most 99 minutes: the digits of its
\* whole minutes and of its remaining whole seconds, around the separator
Shown(span, sep) ==
  LET secs == span \div Second
      m == secs \div 60
      sec == secs % 60
  IN <<m \div 10, m % 10, sep, sec \div 10, sec % 10>>

\* the time span a timer is to display at clock clk
Displayed(clk) ==
  CASE state = StateStopped -> Duration(mode)
    [] state = StatePaused -> d
    [] state = StateRunning -> IF t - clk > 0 THEN t - clk ELSE 0

\* C13: every operation displays the full duration of the mode when the
\* timer is stopped, the stored remaining when it is paused and
\* max(0, deadline - now) when it runs, and never a negative time.
C13_Display ==
  last.op # "none" =>
    /\ resp = Shown(Displayed(now), Sep(mode))
    /\ \A i \in {1, 2, 4, 5} : resp[i] >= 0

\* a running timer is displayed after its deadline, before any refresh has
\* expired it
C13_Witness ==
  last.op # "none" /\ state = StateRunning /\ now > t /\ resp[5] = 0

\* C16 as stated: a passive refresh changes the timer if and only if it runs
\* with now >= deadline; then it stops it and advances the mode; otherwise
\* it leaves the five fields as they are and calls no hook.
C16_ExpiresAtDeadline ==
  Acted("Ticker") =>
    IF last.pre.state = StateRunning /\ last.clk1 >= last.pre.t
    THEN state = StateStopped /\ mode # last.pre.mode
    ELSE Server = last.pre /\ hooks = <<>>

\* C16 as amended: the same with now > deadline; at now = deadline the timer
\* keeps running.
C16_ExpiresAfterDeadline ==
  Acted("Ticker") =>
    IF last.pre.state = StateRunning /\ last.clk1 > last.pre.t
    THEN state = StateStopped /\ mode # last.pre.mode /\ hooks = <<HookEnd>>
    ELSE Server = last.pre /\ hooks = <<>>

\* the ticker has found the timer running exactly at its deadline
C16_Witness ==
  /\ Acted("Ticker")
  /\ last.pre.state = StateRunning
  /\ last.clk1 = last.pre.t
  /\ state = StateRunning

\* C17: ActionStart on a running timer whose deadline has passed leaves it
\* stopped in the next mode, with the count of the expiry and the expiry hook
\* called once; it neither pauses nor starts, and calls no start hook.
C17_ClickOnExpired ==
  Acted("ActionStart") /\ last.pre.state = StateRunning /\ last.clk1 > last.pre.t =>
    /\ state = StateStopped
    /\ hooks = <<HookEnd>>
    /\ t = last.pre.t
    /\ d = last.pre.d
    /\ last.pre.mode = ModeWork =>
         /\ count = last.pre.count + 1
         /\ mode = IF count < N THEN ModeShortBreak ELSE ModeLongBreak
    /\ last.pre.mode = ModeShortBreak => count = last.pre.count /\ mode = ModeWork
    /\ last.pre.mode = ModeLongBreak => count = 0 /\ mode = ModeWork

\* a click on a timer that had expired before the handler read the clock
C17_Witness ==
  /\ Acted("ActionStart")
  /\ last.pre.state = StateRunning
  /\ last.clk0 > last.pre.t
  /\ state = StateStopped
  /\ Calls(HookStart) = 0

\* C20: in every state reached by operations run one at a time, a paused
\* timer holds a remaining between 0 and the duration of its mode.
C20_PausedRemaining ==
  state = StatePaused => 0 <= d /\ d <= Duration(mode)

\* a timer paused at its very deadline, in a break
C20_Witness == state = StatePaused /\ d = 0 /\ mode # ModeWork

\* C18: with the ticker firing again and again and the clock going on, a
\* running timer whose deadline lies before the last clock value of the
\* model is in the end expired (stopped, with the mode advanced), unless a
\* request pauses or stops it first.
C18_ExpiresInTheEnd ==
  (state = StateRunning /\ t < MaxTimeLive) ~>
     /\ last.pre.state = StateRunning
     /\ \/ state = StatePaused
        \/ Acted("ActionStop")
        \/ Due /\ state = StateStopped /\ mode # last.pre.mode

\* the ticker has expired a short break
C18_Witness ==
  /\ Acted("Ticker")
  /\ Due
  /\ last.pre.mode = ModeShortBreak
  /\ state = StateStopped
  /\ mode = ModeWork

\* C14: a push request is sent only when its text or its icon differs from
\* the pair sent last, so that no two requests in a row carry the same pair,
\* also when the goroutines of the ticker and of the handlers run doRequest
\* side by side.
C14_NoRepeatedPush ==
  \A i \in 1 .. Len(sent) - 1 : sent[i] # sent[i + 1]

\* C19: a hook is called in the step that has committed the transition (an
\* expiry has stopped the timer, a start has set it running), and a hook
\* command that ends, with whatever exit status, leaves the process running
\* and every field of the timer as it is.
C19_HookOnlyLogged ==
  [][/\ (hooks' # hooks /\ HookEnd \in Hooked(hooks')) => state' = StateStopped
     /\ (hooks' # hooks /\ HookStart \in Hooked(hooks')) => state' = StateRunning
     /\ waits' < waits => (alive' /\ Server' = Server)]_vars

\* the Servers that the ticker's RefreshStatus and the request's ActionStart
\* leave when one runs after the other, in either order, with any clock reads
\* between the beginning of the two and now
SerialOutcomes ==
  LET reads == {c \in (race.began .. now) \X (race.began .. now) \X (race.began .. now) :
                  c[2] <= c[3]}
  IN {StartSwitch(RefreshStatus(race.base, N, c[1]).s, N, c[2], c[3]).s : c \in reads}
     \cup {RefreshStatus(StartSwitch(race.base, N, c[2], c[3]).s, N, c[1]).s : c \in reads}

\* C15: when the ticker's refresh and a start/pause request run side by side,
\* whatever the order of their reads and writes, they leave the Timer in a
\* state that one of them run wholly after the other would leave.
C15_Serializable ==
  RaceDone => Server \in SerialOutcomes

====
